---- MODULE Spec2Model ----
(***************************************************************************)
(* Model of streamlit_app.py: the Streamlit script of the multi-agent blog *)
(* generator.  A text is a sequence of tokens (strings); an f-string is    *)
(* the concatenation of its literal pieces and the formatted values.  The   *)
(* script is re-run by Streamlit on every widget interaction; a click on    *)
(* the run button re-runs it with run_button true, and the orchestration    *)
(* block then performs one blocking provider call per agent.  The OpenAI    *)
(* SDK is taken to be importable (the guard of lines 34-36 passes).         *)
(***************************************************************************)
EXTENDS Integers, Sequences, FiniteSets, TLC

\* ---------------------------------------------------------------- bounds
MaxKwLen == 1          \* length of the raw keywords text the user types
MaxFaults == 1         \* provider responses without text (None or "") per run

\* ------------------------------------------------------ program constants
WordTargetMin == 600
WordTargetMax == 4000
WordTargetDefault == 1500
TemperatureDefault == 7       \* tenths: 0.7
MaxTokensDefault == 1200
ResearchTemp == 4             \* tenths: 0.4
OutlineTemp == 5
WritingTemp == 8
EditingTemp == 3
SeoTemp == 5
FinalizerTemp == 2

ModelOptions == <<"gpt-4o-mini", "gpt-4o", "gpt-4.1-mini">>
ToneOptions == <<"Professional", "Casual", "Educational", "Persuasive", "Playful">>

\* ------------------------------------------------- sampled user inputs
ApiKeySamples == {<<>>, <<"sk-1">>}
TopicSamples == {<<>>, <<"T", " ", "u">>}
AudienceSamples == {<<>>, <<"a">>}
ModelSamples == {ModelOptions[1], ModelOptions[2]}
ToneSamples == {ToneOptions[1], ToneOptions[5]}
TemperatureSamples == {0, TemperatureDefault}
MaxTokensSamples == {512, MaxTokensDefault}
WordTargetEntries == {WordTargetMin - 1, WordTargetMax, WordTargetMax + 1}
KwAlphabet == {"k", ",", " "}

RECURSIVE SeqsUpTo(_, _)
SeqsUpTo(S, n) ==
    IF n = 0 THEN {<<>>}
    ELSE LET shorter == SeqsUpTo(S, n - 1)
         IN shorter \cup {Append(s, c) : s \in shorter, c \in S}

KeywordsSamples == SeqsUpTo(KwAlphabet, MaxKwLen)

\* ------------------------------------------------------- text helpers
\* Python None, as a value distinct from every text
NONE == <<"<None>">>

\* str(x) as an f-string or st.markdown applies it
Str(x) == IF x = NONE THEN <<"None">> ELSE x

\* truthiness of a str
Truthy(x) == x # <<>>

Contains(p, s) ==
    \E i \in 1..(Len(p) - Len(s) + 1) : SubSeq(p, i, i + Len(s) - 1) = s

Digit(d) ==
    CASE d = 0 -> "0" [] d = 1 -> "1" [] d = 2 -> "2" [] d = 3 -> "3" [] d = 4 -> "4"
      [] d = 5 -> "5" [] d = 6 -> "6" [] d = 7 -> "7" [] d = 8 -> "8" [] d = 9 -> "9"

\* str(n) for a non-negative int
RECURSIVE IntToStr(_)
IntToStr(n) == IF n < 10 THEN <<Digit(n)>> ELSE Append(IntToStr(n \div 10), Digit(n % 10))

\* s.split(",")
RECURSIVE Split(_)
Split(s) ==
    IF \A i \in 1..Len(s) : s[i] # "," THEN <<s>>
    ELSE LET i == CHOOSE j \in 1..Len(s) : s[j] = "," /\ \A k \in 1..(j - 1) : s[k] # ","
         IN <<SubSeq(s, 1, i - 1)>> \o Split(SubSeq(s, i + 1, Len(s)))

\* s.strip()
RECURSIVE LStrip(_)
LStrip(s) == IF s # <<>> /\ Head(s) = " " THEN LStrip(Tail(s)) ELSE s
RECURSIVE RStrip(_)
RStrip(s) == IF s # <<>> /\ s[Len(s)] = " " THEN RStrip(SubSeq(s, 1, Len(s) - 1)) ELSE s
Strip(s) == RStrip(LStrip(s))

\* sep.join(parts)
RECURSIVE Join(_, _)
Join(parts, sep) ==
    IF parts = <<>> THEN <<>>
    ELSE IF Len(parts) = 1 THEN parts[1]
    ELSE parts[1] \o sep \o Join(Tail(parts), sep)

RECURSIVE StripNonEmpty(_)
StripNonEmpty(parts) ==
    IF parts = <<>> THEN <<>>
    ELSE IF Strip(Head(parts)) # <<>>
         THEN <<Strip(Head(parts))>> \o StripNonEmpty(Tail(parts))
         ELSE StripNonEmpty(Tail(parts))

\* [k.strip() for k in keywords.split(",") if k.strip()] if keywords else []
KwList(kw) == IF Truthy(kw) THEN StripNonEmpty(Split(kw)) ELSE <<>>

KwFieldNoFallback(kws) == Join(kws, <<",", " ">>)

\* ', '.join(keywords) if keywords else 'N/A'
KwField(kws) == IF kws # <<>> THEN Join(kws, <<",", " ">>) ELSE <<"N/A">>

LowerChar(c) == IF c = "T" THEN "t" ELSE c
\* topic.strip().lower().replace(' ', '_') + ".md"
FileName(t) ==
    LET s == Strip(t)
    IN [i \in 1..Len(s) |-> IF LowerChar(s[i]) = " " THEN "_" ELSE LowerChar(s[i])] \o <<".md">>

\* ------------------------------------------------------------ prompts
ResearchSystem == <<"You are a meticulous research analyst.">>
OutlineSystem == <<"You are a senior content strategist.">>
WritingSystem == <<"You are a staff content writer.">>
EditingSystem == <<"You are a seasoned editor.">>
SeoSystem == <<"You are an SEO specialist.">>
FinalizerSystem == <<"You are a content packager.">>

ResearchUser(tp, aud, tn, kws) ==
    <<"Topic: ">> \o Str(tp) \o <<"Audience: ">> \o Str(aud) \o <<"Tone: ", tn>>
    \o <<"Target keywords: ">> \o KwField(kws) \o <<"Return: facts, stats, sources">>

OutlineUserNoResearch(tp, aud, tn, kws, research, wt) ==
    <<"Create an outline for a blog post on: ">> \o Str(tp) \o <<"Audience: ">> \o Str(aud)
    \o <<"Tone: ", tn>> \o <<"Target keywords: ">> \o KwField(kws)
    \o <<"Word target: ~">> \o IntToStr(wt) \o <<" words.">>
    \o <<"Use the research below:", "---", "---", "Return: outline">>

OutlineUser(tp, aud, tn, kws, research, wt) ==
    <<"Create an outline for a blog post on: ">> \o Str(tp) \o <<"Audience: ">> \o Str(aud)
    \o <<"Tone: ", tn>> \o <<"Target keywords: ">> \o KwField(kws)
    \o <<"Word target: ~">> \o IntToStr(wt) \o <<" words.">>
    \o <<"Use the research below:", "---">> \o Str(research) \o <<"---", "Return: outline">>

WritingUser(tp, aud, tn, outline, research) ==
    <<"Write the full draft in markdown for the topic ">> \o Str(tp) \o <<"Audience: ">> \o Str(aud)
    \o <<"Tone: ", tn>> \o <<"Follow this outline strictly:", "---">> \o Str(outline)
    \o <<"---", "Incorporate this research:", "---">> \o Str(research) \o <<"---", "Guidelines">>

EditingUser(draft_md, aud, tn) ==
    <<"Edit the following markdown draft. Maintain the intended tone: ", tn>>
    \o <<"---">> \o Str(draft_md) \o <<"---", "Return the revised markdown in full.">>

SeoUser(tp, aud, kws, draft_md) ==
    <<"Based on the markdown draft below, produce SEO pack", "Draft:", "---">>
    \o Str(draft_md) \o <<"---">>

FinalizerUser(draft_md, seo) ==
    <<"Combine the edited markdown with the SEO pack.", "Edited Draft:", "---">> \o Str(draft_md)
    \o <<"---", "SEO Pack:", "---">> \o Str(seo) \o <<"---">>

Messages(system, user) ==
    <<[role |-> "system", content |-> system], [role |-> "user", content |-> user]>>

\* ------------------------------------------------------------- state
VARIABLES
    api_key, model, temperature, max_tokens, show_steps,   \* sidebar widgets
    topic, audience, tone, word_target, keywords,          \* form widgets
    wt_entered,      \* what the user last typed into the word-count input
    pc,              \* position of the script run
    kw_list,         \* script variable kw_list
    r, o, w, e, s, f,    \* script variables holding the AgentResults
    ui,              \* elements rendered by the current script run
    calls,           \* provider calls made by the current script run
    replies,         \* what the provider answered to each of them
    failed           \* function in which the uncaught exception was raised

widgets == <<api_key, model, temperature, max_tokens, show_steps,
             topic, audience, tone, word_target, keywords, wt_entered>>
results == <<r, o, w, e, s, f>>
vars == <<widgets, pc, kw_list, results, ui, calls, replies, failed>>

Unbound == [role |-> "<unbound>", output |-> NONE]
AgentResult(role, output) == [role |-> role, output |-> output]

Element(kind, label, body) == [kind |-> kind, label |-> label, body |-> body]

Quiescent == pc \in {"Idle", "Stopped", "Succeeded", "Failed"}

\* number of provider responses of this run that carried no text
NumFaults ==
    Cardinality({i \in 1..6 : results[i] # Unbound /\ results[i].output \in {NONE, <<>>}})

ProviderError == [ok |-> FALSE, content |-> NONE]
Completion(content) == [ok |-> TRUE, content |-> content]

\* what the provider may answer to a call of the given agent
ProviderText(agent) == <<"#", agent \o " text">>
Contents(agent) ==
    {ProviderText(agent)} \cup (IF NumFaults < MaxFaults THEN {NONE, <<>>} ELSE {})

Init ==
    /\ api_key \in ApiKeySamples          \* os.getenv("OPENAI_API_KEY", "")
    /\ model = ModelOptions[1]
    /\ temperature = TemperatureDefault
    /\ max_tokens = MaxTokensDefault
    /\ show_steps = TRUE
    /\ topic = <<>>
    /\ audience = <<>>
    /\ tone = ToneOptions[1]
    /\ word_target = WordTargetDefault
    /\ wt_entered = WordTargetDefault
    /\ keywords = <<>>
    /\ pc = "Idle"
    /\ kw_list = <<>>
    /\ r = Unbound /\ o = Unbound /\ w = Unbound
    /\ e = Unbound /\ s = Unbound /\ f = Unbound
    /\ ui = <<>>
    /\ calls = <<>>
    /\ replies = <<>>
    /\ failed = ""

\* A script run with run_button false: nothing of the orchestration executes.
Rerun ==
    /\ pc' = "Idle"
    /\ kw_list' = <<>>
    /\ r' = Unbound /\ o' = Unbound /\ w' = Unbound
    /\ e' = Unbound /\ s' = Unbound /\ f' = Unbound
    /\ ui' = <<>>
    /\ calls' = <<>>
    /\ replies' = <<>>
    /\ failed' = ""

SetApiKey ==
    /\ Quiescent
    /\ \E v \in ApiKeySamples \ {api_key} : api_key' = v
    /\ Rerun
    /\ UNCHANGED <<model, temperature, max_tokens, show_steps,
                   topic, audience, tone, word_target, keywords, wt_entered>>

SetModel ==
    /\ Quiescent
    /\ \E v \in ModelSamples \ {model} : model' = v
    /\ Rerun
    /\ UNCHANGED <<api_key, temperature, max_tokens, show_steps,
                   topic, audience, tone, word_target, keywords, wt_entered>>

SetTemperature ==
    /\ Quiescent
    /\ \E v \in TemperatureSamples \ {temperature} : temperature' = v
    /\ Rerun
    /\ UNCHANGED <<api_key, model, max_tokens, show_steps,
                   topic, audience, tone, word_target, keywords, wt_entered>>

SetMaxTokens ==
    /\ Quiescent
    /\ \E v \in MaxTokensSamples \ {max_tokens} : max_tokens' = v
    /\ Rerun
    /\ UNCHANGED <<api_key, model, temperature, show_steps,
                   topic, audience, tone, word_target, keywords, wt_entered>>

SetShowSteps ==
    /\ Quiescent
    /\ show_steps' = ~show_steps
    /\ Rerun
    /\ UNCHANGED <<api_key, model, temperature, max_tokens,
                   topic, audience, tone, word_target, keywords, wt_entered>>

SetTopic ==
    /\ Quiescent
    /\ \E v \in TopicSamples \ {topic} : topic' = v
    /\ Rerun
    /\ UNCHANGED <<api_key, model, temperature, max_tokens, show_steps,
                   audience, tone, word_target, keywords, wt_entered>>

SetAudience ==
    /\ Quiescent
    /\ \E v \in AudienceSamples \ {audience} : audience' = v
    /\ Rerun
    /\ UNCHANGED <<api_key, model, temperature, max_tokens, show_steps,
                   topic, tone, word_target, keywords, wt_entered>>

SetTone ==
    /\ Quiescent
    /\ \E v \in ToneSamples \ {tone} : tone' = v
    /\ Rerun
    /\ UNCHANGED <<api_key, model, temperature, max_tokens, show_steps,
                   topic, audience, word_target, keywords, wt_entered>>

NumberInputNoMax(entered, current, lo, hi) ==
    IF lo <= entered THEN entered ELSE current

\* st.number_input(label, min_value, max_value, value, step): the value the
\* script reads lies in [min_value, max_value]; an entry outside the range is
\* not committed and the widget keeps its value.
NumberInput(entered, current, lo, hi) ==
    IF lo <= entered /\ entered <= hi THEN entered ELSE current

SetWordTarget ==
    /\ Quiescent
    /\ \E v \in WordTargetEntries \ {wt_entered} :
          /\ wt_entered' = v
          /\ word_target' = NumberInput(v, word_target, WordTargetMin, WordTargetMax)
    /\ IF word_target' # word_target
       THEN Rerun
       ELSE UNCHANGED <<pc, kw_list, results, ui, calls, replies, failed>>
    /\ UNCHANGED <<api_key, model, temperature, max_tokens, show_steps,
                   topic, audience, tone, keywords>>

SetKeywords ==
    /\ Quiescent
    /\ \E v \in KeywordsSamples \ {keywords} : keywords' = v
    /\ Rerun
    /\ UNCHANGED <<api_key, model, temperature, max_tokens, show_steps,
                   topic, audience, tone, word_target, wt_entered>>

\* if not api_key
MissingKey == ~Truthy(api_key)

\* if not topic or not audience
MissingFieldsAnd == ~Truthy(topic) /\ ~Truthy(audience)
MissingFields == ~Truthy(topic) \/ ~Truthy(audience)

\* The button is clicked: the script runs with run_button true up to the
\* first provider call (lines 215-225).
ClickRun ==
    /\ Quiescent
    /\ r' = Unbound /\ o' = Unbound /\ w' = Unbound
    /\ e' = Unbound /\ s' = Unbound /\ f' = Unbound
    /\ calls' = <<>>
    /\ replies' = <<>>
    /\ failed' = ""
    /\ IF MissingKey
       THEN /\ ui' = <<Element("error", "", <<"Please provide an OpenAI API key in the sidebar.">>)>>
            /\ pc' = "Stopped"
            /\ kw_list' = <<>>
       ELSE IF MissingFields
       THEN /\ ui' = <<Element("error", "", <<"Please fill in both Topic and Audience.">>)>>
            /\ pc' = "Stopped"
            /\ kw_list' = <<>>
       ELSE /\ ui' = <<>>
            /\ kw_list' = KwList(keywords)
            /\ pc' = "Research"
    /\ UNCHANGED widgets

call_llm_slider(agent, messages, key, mdl, temp, maxtok) ==
    [agent |-> agent,
     client_key |-> IF Truthy(key) THEN key ELSE NONE,
     model |-> mdl,
     messages |-> messages,
     temperature |-> temperature,
     max_tokens |-> maxtok]

\* call_llm: one request to the provider with the given parameters
call_llm(agent, messages, key, mdl, temp, maxtok) ==
    [agent |-> agent,
     client_key |-> IF Truthy(key) THEN key ELSE NONE,
     model |-> mdl,
     messages |-> messages,
     temperature |-> temp,
     max_tokens |-> maxtok]

RaiseClearsScreen(agent) ==
    /\ replies' = Append(replies, ProviderError)
    /\ pc' = "Failed"
    /\ failed' = agent
    /\ ui' = <<Element("exception", agent, <<"Traceback">>)>>

RaiseRetries(agent) ==
    /\ replies' = Append(replies, ProviderError)
    /\ UNCHANGED <<pc, failed, ui>>

\* an exception raised inside an agent is not caught: the script run ends
Raise(agent) ==
    /\ replies' = Append(replies, ProviderError)
    /\ pc' = "Failed"
    /\ failed' = agent
    /\ ui' = Append(ui, Element("exception", agent, <<"Traceback">>))

\* if show_steps: with st.expander(label): st.markdown(out)
Show(label, out) ==
    ui' = IF show_steps THEN Append(ui, Element("expander", label, Str(out))) ELSE ui

Research ==
    /\ pc = "Research"
    /\ calls' = Append(calls, call_llm("Research Agent",
                   Messages(ResearchSystem, ResearchUser(topic, audience, tone, kw_list)),
                   api_key, model, ResearchTemp, max_tokens))
    /\ \/ /\ Raise("Research Agent")
          /\ UNCHANGED r
       \/ \E out \in Contents("Research Agent") :
             /\ r' = AgentResult("Research Agent", out)
             /\ replies' = Append(replies, Completion(out))
             /\ Show("Research Agent Output", out)
             /\ pc' = "Outline"
             /\ UNCHANGED failed
    /\ UNCHANGED <<widgets, kw_list, o, w, e, s, f>>

Outline ==
    /\ pc = "Outline"
    /\ calls' = Append(calls, call_llm("Outline Agent",
                   Messages(OutlineSystem,
                            OutlineUser(topic, audience, tone, kw_list, r.output, word_target)),
                   api_key, model, OutlineTemp, max_tokens))
    /\ \/ /\ Raise("Outline Agent")
          /\ UNCHANGED o
       \/ \E out \in Contents("Outline Agent") :
             /\ o' = AgentResult("Outline Agent", out)
             /\ replies' = Append(replies, Completion(out))
             /\ Show("Outline Agent Output", out)
             /\ pc' = "Writing"
             /\ UNCHANGED failed
    /\ UNCHANGED <<widgets, kw_list, r, w, e, s, f>>

Writing ==
    /\ pc = "Writing"
    /\ calls' = Append(calls, call_llm("Writing Agent",
                   Messages(WritingSystem,
                            WritingUser(topic, audience, tone, o.output, r.output)),
                   api_key, model, WritingTemp, max_tokens))
    /\ \/ /\ Raise("Writing Agent")
          /\ UNCHANGED w
       \/ \E out \in Contents("Writing Agent") :
             /\ w' = AgentResult("Writing Agent", out)
             /\ replies' = Append(replies, Completion(out))
             /\ Show("Writing Agent Output", out)
             /\ pc' = "Editing"
             /\ UNCHANGED failed
    /\ UNCHANGED <<widgets, kw_list, r, o, e, s, f>>

EditingSkipsSeo ==
    /\ pc = "Editing"
    /\ calls' = Append(calls, call_llm("Editing Agent",
                   Messages(EditingSystem, EditingUser(w.output, audience, tone)),
                   api_key, model, EditingTemp, max_tokens))
    /\ \/ /\ Raise("Editing Agent")
          /\ UNCHANGED e
       \/ \E out \in Contents("Editing Agent") :
             /\ e' = AgentResult("Editing Agent", out)
             /\ replies' = Append(replies, Completion(out))
             /\ Show("Editing Agent Output", out)
             /\ pc' = "Finalizing"
             /\ UNCHANGED failed
    /\ UNCHANGED <<widgets, kw_list, r, o, w, s, f>>

Editing ==
    /\ pc = "Editing"
    /\ calls' = Append(calls, call_llm("Editing Agent",
                   Messages(EditingSystem, EditingUser(w.output, audience, tone)),
                   api_key, model, EditingTemp, max_tokens))
    /\ \/ /\ Raise("Editing Agent")
          /\ UNCHANGED e
       \/ \E out \in Contents("Editing Agent") :
             /\ e' = AgentResult("Editing Agent", out)
             /\ replies' = Append(replies, Completion(out))
             /\ Show("Editing Agent Output", out)
             /\ pc' = "Seo"
             /\ UNCHANGED failed
    /\ UNCHANGED <<widgets, kw_list, r, o, w, s, f>>

Seo ==
    /\ pc = "Seo"
    /\ calls' = Append(calls, call_llm("SEO Agent",
                   Messages(SeoSystem, SeoUser(topic, audience, kw_list, e.output)),
                   api_key, model, SeoTemp, max_tokens))
    /\ \/ /\ Raise("SEO Agent")
          /\ UNCHANGED s
       \/ \E out \in Contents("SEO Agent") :
             /\ s' = AgentResult("SEO Agent", out)
             /\ replies' = Append(replies, Completion(out))
             /\ Show("SEO Agent Output", out)
             /\ pc' = "Finalizing"
             /\ UNCHANGED failed
    /\ UNCHANGED <<widgets, kw_list, r, o, w, e, f>>

\* lines 255-267: the finalizer call and the delivery of its output;
\* f.output.encode raises AttributeError when the output is None
Finalizer ==
    /\ pc = "Finalizing"
    /\ calls' = Append(calls, call_llm("Finalizer",
                   Messages(FinalizerSystem, FinalizerUser(e.output, s.output)),
                   api_key, model, FinalizerTemp, max_tokens))
    /\ \/ /\ Raise("Finalizer")
          /\ UNCHANGED f
       \/ \E out \in Contents("Finalizer") :
             /\ f' = AgentResult("Finalizer", out)
             /\ replies' = Append(replies, Completion(out))
             /\ IF out = NONE
                THEN /\ ui' = ui \o <<Element("success", "", <<"Blog post generated!">>),
                                      Element("exception", "download_button", <<"Traceback">>)>>
                     /\ pc' = "Failed"
                     /\ failed' = "download_button"
                ELSE /\ ui' = ui \o <<Element("success", "", <<"Blog post generated!">>),
                                      Element("download", FileName(topic), out),
                                      Element("markdown", "", <<"### Final Output">>),
                                      Element("markdown", "", Str(out))>>
                     /\ pc' = "Succeeded"
                     /\ UNCHANGED failed
    /\ UNCHANGED <<widgets, kw_list, r, o, w, e, s>>

Next ==
    \/ SetApiKey \/ SetModel \/ SetTemperature \/ SetMaxTokens \/ SetShowSteps
    \/ SetTopic \/ SetAudience \/ SetTone \/ SetWordTarget \/ SetKeywords
    \/ ClickRun
    \/ Research \/ Outline \/ Writing \/ Editing \/ Seo \/ Finalizer

Spec == Init /\ [][Next]_vars

\* ------------------------------------------------------ derived views
AgentOrder == <<"Research Agent", "Outline Agent", "Writing Agent",
                "Editing Agent", "SEO Agent", "Finalizer">>

CallAgents == [i \in 1..Len(calls) |-> calls[i].agent]
UserPrompt(i) == calls[i].messages[2].content
NoText(x) == x = NONE \/ x = <<>>
IsPrefix(a, b) == Len(a) <= Len(b) /\ a = SubSeq(b, 1, Len(a))
Running == pc \in {"Research", "Outline", "Writing", "Editing", "Seo", "Finalizing"}
WordTargetInRange(n) == 600 <= n /\ n <= 4000

RECURSIVE SelectKind(_, _)
SelectKind(elems, kind) ==
    IF elems = <<>> THEN <<>>
    ELSE IF Head(elems).kind = kind
         THEN <<Head(elems)>> \o SelectKind(Tail(elems), kind)
         ELSE SelectKind(Tail(elems), kind)

\* the bodies of the expanders shown so far, in order
Expanders == [i \in 1..Len(SelectKind(ui, "expander")) |-> SelectKind(ui, "expander")[i].body]

\* ------------------------------------------------------------- claims

\* C1: whenever the success state is reached (script finished, or the success
\* notice or the download is on screen), the six provider calls were made
\* exactly once each in the order Research, Outline, Writing, Editing, SEO,
\* Finalizer, all answered, the five stage results and the Finalizer result
\* exist in that order, and at most one final document is offered.
C1_SuccessAfterAllStages ==
    (pc = "Succeeded" \/ SelectKind(ui, "success") # <<>> \/ SelectKind(ui, "download") # <<>>) =>
        /\ CallAgents = AgentOrder
        /\ Len(replies) = 6
        /\ \A i \in 1..6 : /\ replies[i].ok
                           /\ results[i] = AgentResult(AgentOrder[i], replies[i].content)
        /\ Len(SelectKind(ui, "success")) = 1
        /\ Len(SelectKind(ui, "download")) <= 1
        /\ pc = "Succeeded" =>
              /\ SelectKind(ui, "download") = <<Element("download", FileName(topic), f.output)>>
              /\ ui[Len(ui)] = Element("markdown", "", Str(f.output))

C1_Witness ==
    /\ pc = "Succeeded"
    /\ show_steps
    /\ Len(Expanders) = 5
    /\ f.output = <<"#", "Finalizer text">>

\* C2: while the API key, the topic or the audience is empty, a run request
\* halts in the validation stop, no provider call is made and no stage result
\* is produced.
C2_ValidationHaltsBeforeAnyCall ==
    /\ []((api_key = <<>> \/ topic = <<>> \/ audience = <<>>) =>
            /\ pc \in {"Idle", "Stopped"}
            /\ calls = <<>>
            /\ \A i \in 1..6 : results[i] = Unbound)
    /\ [][((api_key = <<>> \/ topic = <<>> \/ audience = <<>>) /\ UNCHANGED widgets) =>
            (pc' = "Stopped" /\ calls' = <<>> /\ SelectKind(ui', "error") # <<>>)]_vars

C2_Witness ==
    /\ pc = "Stopped"
    /\ api_key # <<>>
    /\ topic = <<>>
    /\ audience # <<>>

\* C3 (as stated): when the call of stage k fails the run ends failed at stage
\* k, no later agent is invoked, and the results of all stages before k are
\* exposed to the user.
C3_Original ==
    \A k \in 1..6 :
        (Len(replies) = k /\ ~replies[k].ok) =>
            /\ pc = "Failed" /\ failed = AgentOrder[k]
            /\ CallAgents = SubSeq(AgentOrder, 1, k)
            /\ Expanders = [j \in 1..(k - 1) |-> Str(replies[j].content)]

\* C3 (amended): when the call of stage k fails the run ends failed at stage
\* k (the traceback names the agent), no later agent is invoked, the results
\* of the stages before k stay bound, and they are on screen exactly when
\* show_steps is on; with show_steps off no stage result is on screen.
C3_FailureStopsRun ==
    \A k \in 1..6 :
        (Len(replies) = k /\ ~replies[k].ok) =>
            /\ pc = "Failed" /\ failed = AgentOrder[k]
            /\ ui[Len(ui)] = Element("exception", AgentOrder[k], <<"Traceback">>)
            /\ CallAgents = SubSeq(AgentOrder, 1, k)
            /\ \A j \in 1..(k - 1) : results[j] = AgentResult(AgentOrder[j], replies[j].content)
            /\ \A j \in k..6 : results[j] = Unbound
            /\ Expanders = IF show_steps THEN [j \in 1..(k - 1) |-> Str(replies[j].content)]
                           ELSE <<>>

C3_Witness ==
    /\ pc = "Failed"
    /\ failed = "Writing Agent"
    /\ show_steps
    /\ Len(calls) = 3
    /\ Expanders = <<<<"#", "Research Agent text">>, <<"#", "Outline Agent text">>>>

\* C4: no agent is invoked with an upstream output that is missing or empty:
\* every answered call but the last produced a non-empty text.
C4_Original ==
    \A i \in 1..Len(calls) : \A j \in 1..(i - 1) : ~NoText(replies[j].content)

\* C5: a provider answer without text (None or "") makes the run fail at that
\* stage and is never turned into a stage result.
C5_Original ==
    \A i \in 1..Len(replies) :
        (replies[i].ok /\ NoText(replies[i].content)) =>
            /\ pc = "Failed" /\ failed = AgentOrder[i]
            /\ results[i] = Unbound
            /\ Len(calls) = i

C7_Original ==
    [][(~WordTargetInRange(wt_entered) /\ Quiescent /\ UNCHANGED widgets) =>
          (pc' = "Stopped" /\ calls' = <<>>)]_vars

\* C7 (amended): the word-count input never yields a value outside
\* [600,4000]: an entry outside the range is not taken over, no validation
\* stop exists for it (a run with key, topic and audience starts Research),
\* and the word target in every Outline prompt lies in [600,4000].
C7_WordTargetAlwaysInRange ==
    /\ [](/\ WordTargetInRange(word_target)
          /\ (WordTargetInRange(wt_entered) => word_target = wt_entered)
          /\ Len(calls) >= 2 =>
                Contains(UserPrompt(2), <<"Word target: ~">> \o IntToStr(word_target) \o <<" words.">>))
    /\ [][(Quiescent /\ UNCHANGED widgets
             /\ api_key # <<>> /\ topic # <<>> /\ audience # <<>>) => pc' = "Research"]_vars

C7_Witness ==
    /\ ~WordTargetInRange(wt_entered)
    /\ word_target = 4000
    /\ Len(calls) >= 2

\* C8: the provider calls of a run are a prefix of Research, Outline, Writing,
\* Editing, SEO, Finalizer: at most six, exactly six in a successful run, and
\* a failed call is never followed by another call.
C8_CallsArePrefix ==
    /\ IsPrefix(CallAgents, AgentOrder)
    /\ Len(calls) <= 6
    /\ (pc = "Succeeded" => Len(calls) = 6)
    /\ Len(replies) = Len(calls)
    /\ \A i \in 1..(Len(calls) - 1) : replies[i].ok
    /\ (Running => Len(calls) < 6 /\ \A i \in 1..Len(calls) : replies[i].ok)

C8_Witness ==
    /\ pc = "Failed"
    /\ failed = "Editing Agent"
    /\ Len(calls) = 4

C10_SharedConfigFixedTemperatures ==
    /\ [](\A i \in 1..Len(calls) :
             /\ calls[i].model = model
             /\ calls[i].max_tokens = max_tokens
             /\ calls[i].client_key = api_key
             /\ i <= 5 => calls[i].temperature = <<4, 5, 8, 3, 5>>[i])
    /\ [][Running => UNCHANGED widgets]_vars

C10_Witness ==
    /\ Len(calls) = 6
    /\ temperature = 0
    /\ model = "gpt-4o"
    /\ max_tokens = 512

====
